---- MODULE Spec2Model ----
(***************************************************************************)
(* Model of the AutomatedPlanter repository: the plant configuration       *)
(* (plant_config.py), the pump driver (hardware_drivers.py), the           *)
(* monitoring cycle of main.py and the automatic-watering demo of          *)
(* demo_milestones.py.                                                     *)
(*                                                                         *)
(* Time is counted in ticks, TicksPerDay ticks to a day, so that the       *)
(* whole-day part of a time difference (timedelta.days) is a real          *)
(* truncation.  An ISO timestamp string is the pair <<"T", t>>, a number   *)
(* that may be missing is <<n>>, and None is the empty sequence.           *)
(***************************************************************************)
EXTENDS Integers, Sequences, FiniteSets, TLC

VARIABLES
    now,            \* datetime.now(), in ticks
    simulation_mode,\* HardwareInterface.simulation_mode
    active_plants,  \* PlantConfig.config["active_plants"], a list of plant dicts
    config_file,    \* the active_plants last written by save_config
    pump_status,    \* HardwareInterface.pump_status
    pump_log,       \* the control_pump calls made by the last step
    status_log,     \* the update_plant_status calls made by the last step
    returned,       \* the operation of the last step and the value it returned
    monitor_pc,     \* the running flag of the monitoring loop and where the loop is
    sensor_history, \* the snapshot histories: HardwareInterface.sensor_history and
                    \* last_sensor_readings, RaspberryPiCore.system_status["sensor_history"]
    system_status,  \* RaspberryPiCore.system_status: its pump_status and
                    \* plants_needing_water
    plants_table,   \* the rows of the plants table of plants.db, in rowid order
    gpio,           \* the levels of the output pins pump_enable_pin, pump1_pin, pump2_pin
    calls,          \* the requests in flight, one per server thread: where each is
                    \* in its handler and its local variables
    web_active_plants \* config["active_plants"] of the PlantConfig of web_interface

vars == <<now, simulation_mode, active_plants, config_file, pump_status,
          pump_log, status_log, returned, monitor_pc, sensor_history,
          system_status, plants_table, gpio, calls, web_active_plants>>

----------------------------------------------------------------------------
(* Bounds of the model *)

TicksPerDay == 2
MaxTime == 2
MaxDays == 15
MaxPosition == 1
ReadingMargin == 1

Positions == 0..MaxPosition
ScheduleHorizon == MaxDays * TicksPerDay

----------------------------------------------------------------------------
(* Python values *)

None == <<>>

\* datetime.isoformat / datetime.fromisoformat on a tick count
isoformat(t) == <<"T", t>>
fromisoformat(s) == s[2]

\* bool(x) for None, a number held as <<n>> and a timestamp string
Truthy(x) == x # None /\ x # <<0>>

\* a or b
PyOr(a, b) == IF Truthy(a) THEN a ELSE b

\* dict.get(key) with the default None
DictGet(d, key) == IF key \in DOMAIN d THEN d[key] ELSE None

\* mutant of DaysBetween: a started day counts as a whole day
DaysBetween_RoundsUp(current_time, last_watered) ==
    (current_time - last_watered + TicksPerDay - 1) \div TicksPerDay

\* (current_time - last_watered).days
DaysBetween(current_time, last_watered) == (current_time - last_watered) \div TicksPerDay

----------------------------------------------------------------------------
(* The plants table as init_database fills it *)

Statuses == {"active", "needs_water", "error"}
SensorTypes == {"soil_moisture", "temperature", "humidity", "light"}

Plants ==
    [ SnakePlant |->
        [id |-> 1, name |-> "Snake Plant", water_amount |-> 250, watering_frequency |-> 14,
         light_min |-> 50, light_max |-> 200,
         soil_moisture_min |-> 20, soil_moisture_max |-> 40,
         humidity_min |-> 30, humidity_max |-> 60,
         temperature_min |-> 15, temperature_max |-> 30],
      PeaceLily |->
        [id |-> 2, name |-> "Peace Lily", water_amount |-> 300, watering_frequency |-> 7,
         light_min |-> 100, light_max |-> 300,
         soil_moisture_min |-> 40, soil_moisture_max |-> 70,
         humidity_min |-> 50, humidity_max |-> 80,
         temperature_min |-> 18, temperature_max |-> 28] ]

PlantNames == DOMAIN Plants

\* the rows init_database inserts into an empty table
InitialPlants == <<Plants.SnakePlant, Plants.PeaceLily>>

\* the name column a request means by a plant name: the catalog keys stand
\* for the names of their rows, any other name for itself
RowName(name) == IF name \in PlantNames THEN Plants[name].name ELSE name

\* PlantDatabase.get_plant_by_name: fetchone of SELECT ... WHERE name = ?
get_plant_by_name(table, name) ==
    LET rows == SelectSeq(table, LAMBDA row : row.name = RowName(name))
    IN  IF rows = <<>> THEN None ELSE rows[1]

----------------------------------------------------------------------------
(* PlantConfig *)

\* the plant dict add_plant builds
NewPlantConfig(plant, position) ==
    [name |-> plant.name, position |-> position, plant_id |-> plant.id,
     last_watered |-> None, last_checked |-> None, status |-> "active",
     custom_settings |->
        [water_amount |-> plant.water_amount,
         watering_frequency |-> plant.watering_frequency,
         light_min |-> plant.light_min, light_max |-> plant.light_max,
         soil_moisture_min |-> plant.soil_moisture_min,
         soil_moisture_max |-> plant.soil_moisture_max,
         humidity_min |-> plant.humidity_min, humidity_max |-> plant.humidity_max,
         temperature_min |-> plant.temperature_min,
         temperature_max |-> plant.temperature_max]]

\* index of the first plant of the list at a position, 0 when there is none
IndexAt(ap, position) ==
    IF \E i \in 1..Len(ap) : ap[i].position = position
    THEN CHOOSE i \in 1..Len(ap) :
            /\ ap[i].position = position
            /\ \A j \in 1..(i - 1) : ap[j].position # position
    ELSE 0

get_plant_at_position(ap, position) ==
    IF IndexAt(ap, position) = 0 THEN None ELSE ap[IndexAt(ap, position)]

\* update_plant_status without its save
SetStatus(ap, position, status, t) ==
    IF IndexAt(ap, position) = 0 THEN ap
    ELSE [ap EXCEPT ![IndexAt(ap, position)].status = status,
                    ![IndexAt(ap, position)].last_checked = isoformat(t)]

\* mutant of SetWatered: the time is written to last_checked
SetWatered_WritesLastChecked(ap, position, t) ==
    IF IndexAt(ap, position) = 0 THEN ap
    ELSE [ap EXCEPT ![IndexAt(ap, position)].last_checked = isoformat(t)]

\* update_watering_time without its save
SetWatered(ap, position, t) ==
    IF IndexAt(ap, position) = 0 THEN ap
    ELSE [ap EXCEPT ![IndexAt(ap, position)].last_watered = isoformat(t)]

\* mutant of NeedsWater: a plant that was never watered is passed over
NeedsWater_NeverWateredSkipped(plant, current_time) ==
    /\ plant.status = "active"
    /\ Truthy(plant.last_watered)
    /\ DaysBetween(current_time, fromisoformat(plant.last_watered))
            >= plant.custom_settings.watering_frequency

\* the test the loop of get_plants_needing_water makes on one plant
NeedsWater(plant, current_time) ==
    /\ plant.status = "active"
    /\ IF Truthy(plant.last_watered)
       THEN DaysBetween(current_time, fromisoformat(plant.last_watered))
                >= plant.custom_settings.watering_frequency
       ELSE TRUE

get_plants_needing_water(ap, current_time) ==
    SelectSeq(ap, LAMBDA plant : NeedsWater(plant, current_time))

\* a raised exception, in place of a returned value
Raise(exception) == [raised |-> exception]
Raised(result) == "raised" \in DOMAIN result

\* mutant of CheckRange: the elif branch for a reading above max_val is missing
CheckRange_NoUpperBound(value, min_val, max_val, low, high) ==
    IF value = None THEN Raise("TypeError")
    ELSE IF value[1] < min_val
    THEN [valid |-> FALSE, message |-> <<low.message, value[1], min_val>>,
          action |-> <<low.action>>]
    ELSE [valid |-> TRUE, message |-> <<"OK">>, action |-> None]

\* mutant of CheckRange: the comparisons are <= and >=
CheckRange_ExclusiveBounds(value, min_val, max_val, low, high) ==
    IF value = None THEN Raise("TypeError")
    ELSE IF value[1] <= min_val
    THEN [valid |-> FALSE, message |-> <<low.message, value[1], min_val>>,
          action |-> <<low.action>>]
    ELSE IF value[1] >= max_val
    THEN [valid |-> FALSE, message |-> <<high.message, value[1], max_val>>,
          action |-> <<high.action>>]
    ELSE [valid |-> TRUE, message |-> <<"OK">>, action |-> None]

\* one "if value < min_val ... elif value > max_val ..." block of
\* validate_sensor_reading; comparing None with a number raises TypeError
CheckRange(value, min_val, max_val, low, high) ==
    IF value = None THEN Raise("TypeError")
    ELSE IF value[1] < min_val
    THEN [valid |-> FALSE, message |-> <<low.message, value[1], min_val>>,
          action |-> <<low.action>>]
    ELSE IF value[1] > max_val
    THEN [valid |-> FALSE, message |-> <<high.message, value[1], max_val>>,
          action |-> <<high.action>>]
    ELSE [valid |-> TRUE, message |-> <<"OK">>, action |-> None]

validate_sensor_reading(ap, position, sensor_type, value) ==
    LET plant == get_plant_at_position(ap, position)
        requirements == plant.custom_settings
    IN  IF plant = None
        THEN [valid |-> FALSE, message |-> <<"No plant at position">>]
        ELSE CASE sensor_type = "soil_moisture" ->
                    CheckRange(value, requirements.soil_moisture_min,
                               requirements.soil_moisture_max,
                               [message |-> "Soil too dry", action |-> "water"],
                               [message |-> "Soil too wet", action |-> "drain"])
               [] sensor_type = "temperature" ->
                    CheckRange(value, requirements.temperature_min,
                               requirements.temperature_max,
                               [message |-> "Temperature too low", action |-> "heat"],
                               [message |-> "Temperature too high", action |-> "cool"])
               [] sensor_type = "humidity" ->
                    CheckRange(value, requirements.humidity_min,
                               requirements.humidity_max,
                               [message |-> "Humidity too low", action |-> "humidify"],
                               [message |-> "Humidity too high", action |-> "dehumidify"])
               [] sensor_type = "light" ->
                    CheckRange(value, requirements.light_min,
                               requirements.light_max,
                               [message |-> "Light too low", action |-> "increase_light"],
                               [message |-> "Light too high", action |-> "decrease_light"])
               [] OTHER -> [valid |-> TRUE, message |-> <<"OK">>, action |-> None]

----------------------------------------------------------------------------
(* HardwareInterface.control_pump *)

FlowRate == 100

\* the duration cut to whole seconds
PumpDuration_WholeSeconds(water_amount) == (water_amount \div FlowRate) * 1000

\* duration = water_amount / 100.0 seconds, held in milliseconds
PumpDuration(water_amount) == (water_amount * 1000) \div FlowRate

\* the remainder taking the sign of the position, as in C
PumpNumber_TruncatedRemainder(position) ==
    IF position < 0 THEN 1 - ((0 - position) % 2) ELSE (position % 2) + 1

\* pump_num = (position % 2) + 1
PumpNumber(position) == (position % 2) + 1

\* What the GPIO does during one control_pump call on real hardware:
\*   "none"         every GPIO.output call succeeds
\*   "start"        a GPIO.output call raises while the pump is switched on
\*   "stop"         a GPIO.output call raises while the pump is switched off
\*   "unrecovered"  as "start", and GPIO.output raises again in the handler
Faults == {"none", "start", "stop", "unrecovered"}
FaultsOf(simulation) == IF simulation THEN {"none"} ELSE Faults

\* the value control_pump returns (or that it raised), the pump_status it
\* leaves, and what it did to the pump: "on" the pump was started, "ran" the
\* sleep of the requested duration completed, "off" the pump was stopped by
\* the normal path
control_pump(ps, simulation, pump_number, duration, fault, t) ==
    LET pump_name == IF pump_number = 1 THEN "pump1" ELSE "pump2"
    IN  IF pump_number \notin {1, 2}
        THEN [success |-> FALSE, raised |-> FALSE, pump_status |-> ps, events |-> <<>>]
        ELSE IF ~simulation /\ fault \in {"start", "unrecovered"}
        THEN [success |-> FALSE, raised |-> (fault = "unrecovered"), pump_status |-> ps,
              events |-> <<>>]
        ELSE IF duration < 0
        THEN [success |-> FALSE, raised |-> FALSE,
              pump_status |-> [ps EXCEPT ![pump_name] = TRUE], events |-> <<"on">>]
        ELSE IF ~simulation /\ fault = "stop"
        THEN [success |-> FALSE, raised |-> FALSE,
              pump_status |-> [ps EXCEPT ![pump_name] = TRUE], events |-> <<"on", "ran">>]
        ELSE [success |-> TRUE, raised |-> FALSE,
              pump_status |-> [ps EXCEPT ![pump_name] = FALSE,
                                         !.last_watered = isoformat(t)],
              events |-> <<"on", "ran", "off">>]

----------------------------------------------------------------------------
(* AutomatedPlanter (main.py) *)

\* The progress of one operation: the configuration and pump status so far,
\* the control_pump and update_plant_status calls made, and whether an
\* exception is propagating.
Progress(ap, ps) ==
    [ap |-> ap, ps |-> ps, pump_log |-> <<>>, status_log |-> <<>>, saved |-> FALSE,
     raised |-> FALSE]

PumpCall(plant, position, pump_number, duration, outcome) ==
    [position |-> position, pump |-> pump_number, duration |-> duration,
     status_before |-> plant.status,
     success |-> outcome.success, raised |-> outcome.raised, events |-> outcome.events]

\* trigger_watering without its update_plant_status call
trigger_watering_KeepsStatus(st, simulation, position, fault, t) ==
    LET plant == get_plant_at_position(st.ap, position)
        outcome == control_pump(st.ps, simulation, PumpNumber(position),
                                PumpDuration(plant.custom_settings.water_amount), fault, t)
        called == Append(st.pump_log,
                         PumpCall(plant, position, PumpNumber(position),
                                  PumpDuration(plant.custom_settings.water_amount), outcome))
    IN  IF st.raised \/ plant = None THEN st
        ELSE [st EXCEPT !.ap = IF outcome.success THEN SetWatered(st.ap, position, t) ELSE @,
                        !.ps = outcome.pump_status,
                        !.pump_log = called,
                        !.saved = outcome.success,
                        !.raised = outcome.raised]

trigger_watering(st, simulation, position, fault, t) ==
    LET plant == get_plant_at_position(st.ap, position)
        water_amount == plant.custom_settings.water_amount
        duration == PumpDuration(water_amount)
        pump_num == PumpNumber(position)
        outcome == control_pump(st.ps, simulation, pump_num, duration, fault, t)
        called == Append(st.pump_log, PumpCall(plant, position, pump_num, duration, outcome))
    IN  IF st.raised \/ plant = None THEN st
        ELSE IF outcome.raised
        THEN [st EXCEPT !.ps = outcome.pump_status, !.pump_log = called, !.raised = TRUE]
        ELSE IF outcome.success
        THEN [st EXCEPT !.ap = SetStatus(SetWatered(st.ap, position, t), position, "active", t),
                        !.ps = outcome.pump_status,
                        !.pump_log = called,
                        !.saved = TRUE,
                        !.status_log = Append(st.status_log,
                                              [position |-> position, status |-> "active"])]
        ELSE [st EXCEPT !.ps = outcome.pump_status, !.pump_log = called]

\* trigger_watering for each position of a list in turn, call i under faults[i]
RECURSIVE WaterEach(_, _, _, _, _, _)
WaterEach(st, simulation, positions, faults, i, t) ==
    IF i > Len(positions) THEN st
    ELSE WaterEach(trigger_watering(st, simulation, positions[i], faults[i], t),
                   simulation, positions, faults, i + 1, t)

PositionsOf(plants) == [i \in 1..Len(plants) |-> plants[i].position]

\* the key log_sensor_data reads for a sensor type: the first truthy value of
\* "<type>_percent", "<type>_celsius", "<type>_lux"
SensorValue(sensor_data, sensor_type) ==
    LET key == [soil_moisture |-> <<"soil_moisture_percent", "soil_moisture_celsius",
                                    "soil_moisture_lux">>,
                temperature |-> <<"temperature_percent", "temperature_celsius",
                                  "temperature_lux">>,
                humidity |-> <<"humidity_percent", "humidity_celsius", "humidity_lux">>,
                light |-> <<"light_percent", "light_celsius", "light_lux">>][sensor_type]
    IN  PyOr(PyOr(DictGet(sensor_data, key[1]), DictGet(sensor_data, key[2])),
             DictGet(sensor_data, key[3]))

SensorTypeOrder == <<"soil_moisture", "temperature", "humidity", "light">>

\* whether log_sensor_data waters the plant for a sensor type
AutoWaters(ap, position, sensor_data, sensor_type) ==
    LET value == SensorValue(sensor_data, sensor_type)
        validation == validate_sensor_reading(ap, position, sensor_type, value)
    IN  /\ value # None
        /\ ~validation.valid
        /\ validation.action = <<"water">>

\* the positions log_sensor_data waters, in the order of its two loops
RECURSIVE AutoWaterings(_, _, _, _)
AutoWaterings(ap, sensor_data, i, k) ==
    IF i > Len(ap) THEN <<>>
    ELSE IF k > Len(SensorTypeOrder) THEN AutoWaterings(ap, sensor_data, i + 1, 1)
    ELSE (IF AutoWaters(ap, ap[i].position, sensor_data, SensorTypeOrder[k])
          THEN <<ap[i].position>> ELSE <<>>)
         \o AutoWaterings(ap, sensor_data, i, k + 1)

----------------------------------------------------------------------------
(* Initial values shared by the specifications *)

NoReturn == [op |-> "none", args |-> <<>>, value |-> <<>>]

\* the threads of the threaded Flask server that handle requests, and a
\* thread that handles none
Threads == {1, 2}
Idle == [pc |-> "idle"]

InitHardware ==
    /\ simulation_mode \in BOOLEAN
    /\ pump_status = [pump1 |-> FALSE, pump2 |-> FALSE, last_watered |-> None]
    /\ pump_log = <<>>
    /\ status_log = <<>>
    /\ returned = NoReturn
    /\ monitor_pc = [running |-> FALSE, at |-> "idle", sleep |-> 0]
    /\ sensor_history = [hardware |-> <<>>, last |-> None, core |-> <<>>]
    /\ system_status =
           [plants_needing_water |-> <<>>,
            pump_status |-> [pump1 |-> FALSE, pump2 |-> FALSE, last_watered |-> None]]
    /\ plants_table = InitialPlants
    /\ gpio = [enable |-> FALSE, pump1 |-> FALSE, pump2 |-> FALSE]
    /\ calls = [thread \in Threads |-> Idle]

----------------------------------------------------------------------------
(* Operations of PlantConfig, as its callers (the web interface, the       *)
(* monitoring loop, the demos) or any other client may invoke them.  Each  *)
(* step leaves in returned, pump_log and status_log what it returned and   *)
(* which pump and status calls it made.                                    *)

\* add_plant without its search for a plant already at the position
AddPlant_IgnoresOccupied(plant_name, position) ==
    LET plant == get_plant_by_name(plants_table, plant_name)
    IN  /\ active_plants' = IF plant # None
                            THEN Append(active_plants, NewPlantConfig(plant, position))
                            ELSE active_plants
        /\ config_file' = active_plants'
        /\ returned' = [op |-> "add_plant", args |-> <<plant_name, position>>,
                        value |-> <<plant # None>>]
        /\ pump_log' = <<>>
        /\ status_log' = <<>>
        /\ Len(active_plants) <= MaxPosition + 3
        /\ UNCHANGED <<gpio, calls, web_active_plants, plants_table, system_status, sensor_history, now, simulation_mode, pump_status, monitor_pc>>

AddPlant(plant_name, position) ==
    LET plant == get_plant_by_name(plants_table, plant_name)
        ok == plant # None /\ IndexAt(active_plants, position) = 0
    IN  /\ active_plants' = IF ok
                            THEN Append(active_plants, NewPlantConfig(plant, position))
                            ELSE active_plants
        /\ config_file' = IF ok THEN active_plants' ELSE config_file
        /\ returned' = [op |-> "add_plant", args |-> <<plant_name, position>>, value |-> <<ok>>]
        /\ pump_log' = <<>>
        /\ status_log' = <<>>
        /\ UNCHANGED <<gpio, calls, web_active_plants, plants_table, system_status, sensor_history, now, simulation_mode, pump_status, monitor_pc>>

RemovePlant(position) ==
    LET i == IndexAt(active_plants, position)
    IN  /\ active_plants' = IF i = 0 THEN active_plants
                            ELSE SubSeq(active_plants, 1, i - 1)
                                 \o SubSeq(active_plants, i + 1, Len(active_plants))
        /\ config_file' = IF i = 0 THEN config_file ELSE active_plants'
        /\ returned' = [op |-> "remove_plant", args |-> <<position>>, value |-> <<i # 0>>]
        /\ pump_log' = <<>>
        /\ status_log' = <<>>
        /\ UNCHANGED <<gpio, calls, web_active_plants, plants_table, system_status, sensor_history, now, simulation_mode, pump_status, monitor_pc>>

UpdateWateringTime(position) ==
    /\ active_plants' = SetWatered(active_plants, position, now)
    /\ config_file' = IF IndexAt(active_plants, position) = 0
                      THEN config_file ELSE active_plants'
    /\ returned' = [op |-> "update_watering_time", args |-> <<>>, value |-> <<>>]
    /\ pump_log' = <<>>
    /\ status_log' = <<>>
    /\ UNCHANGED <<gpio, calls, web_active_plants, plants_table, system_status, sensor_history, now, simulation_mode, pump_status, monitor_pc>>

UpdatePlantStatus(position, status) ==
    /\ active_plants' = SetStatus(active_plants, position, status, now)
    /\ config_file' = IF IndexAt(active_plants, position) = 0
                      THEN config_file ELSE active_plants'
    /\ returned' = [op |-> "update_plant_status", args |-> <<>>, value |-> <<>>]
    /\ pump_log' = <<>>
    /\ status_log' = IF IndexAt(active_plants, position) = 0 THEN <<>>
                     ELSE <<[position |-> position, status |-> status]>>
    /\ UNCHANGED <<gpio, calls, web_active_plants, plants_table, system_status, sensor_history, now, simulation_mode, pump_status, monitor_pc>>

GetPlantsNeedingWater ==
    /\ returned' = [op |-> "get_plants_needing_water", args |-> <<>>,
                    value |-> get_plants_needing_water(active_plants, now)]
    /\ pump_log' = <<>>
    /\ status_log' = <<>>
    /\ UNCHANGED <<gpio, calls, web_active_plants, plants_table, system_status, sensor_history, now, simulation_mode, active_plants, config_file, pump_status,
                   monitor_pc>>

----------------------------------------------------------------------------
(* The monitoring loop of AutomatedPlanter.start_monitoring: check_plants, *)
(* then log_sensor_data, then the sleep; an exception raised by either     *)
(* ends the iteration and the loop starts over after its backoff.          *)

Tick ==
    /\ now < MaxTime
    /\ now' = now + 1
    /\ returned' = NoReturn
    /\ pump_log' = <<>>
    /\ status_log' = <<>>
    /\ UNCHANGED <<gpio, calls, web_active_plants, plants_table, system_status, sensor_history, simulation_mode, active_plants, config_file, pump_status, monitor_pc>>

\* what an operation that ran pumps leaves behind
FinishWith(op, args, st, next_pc) ==
    /\ active_plants' = st.ap
    /\ config_file' = IF st.saved THEN st.ap ELSE config_file
    /\ pump_status' = st.ps
    /\ pump_log' = st.pump_log
    /\ status_log' = st.status_log
    /\ returned' = [op |-> op, args |-> args, value |-> <<st.raised>>]
    /\ monitor_pc' = next_pc
    /\ UNCHANGED <<gpio, calls, web_active_plants, plants_table, system_status, sensor_history, now, simulation_mode>>

Finish(op, st, next_pc) == FinishWith(op, <<>>, st, next_pc)

\* time.sleep(60) at the end of a cycle, time.sleep(10) after a failed one
CycleSeconds == 60
BackoffSeconds == 10

\* a loop without `except Exception`: a call that raises ends the loop
AfterCall_Propagates(raised, next_at, next_sleep) ==
    IF raised
    THEN [monitor_pc EXCEPT !.at = "idle", !.sleep = 0]
    ELSE [monitor_pc EXCEPT !.at = next_at, !.sleep = next_sleep]

\* where the loop goes after a call of its try block: on to the next call, or,
\* when the call raised, into the backoff sleep of `except Exception`
AfterCall(raised, next_at, next_sleep) ==
    IF raised
    THEN [monitor_pc EXCEPT !.at = "backoff", !.sleep = BackoffSeconds]
    ELSE [monitor_pc EXCEPT !.at = next_at, !.sleep = next_sleep]

\* start_monitoring: self.running = True and the first test of the while loop
StartMonitoring ==
    /\ monitor_pc.at = "idle"
    /\ monitor_pc' = [running |-> TRUE, at |-> "check_plants", sleep |-> 0]
    /\ returned' = NoReturn
    /\ pump_log' = <<>>
    /\ status_log' = <<>>
    /\ UNCHANGED <<gpio, calls, web_active_plants, plants_table, system_status, sensor_history, now, simulation_mode, active_plants, config_file, pump_status>>

\* a sleep of the loop ends and `while self.running` is tested again
Wake ==
    /\ monitor_pc.at \in {"sleep", "backoff"}
    /\ monitor_pc' = IF monitor_pc.running
                     THEN [monitor_pc EXCEPT !.at = "check_plants", !.sleep = 0]
                     ELSE [monitor_pc EXCEPT !.at = "idle", !.sleep = 0]
    /\ returned' = NoReturn
    /\ pump_log' = <<>>
    /\ status_log' = <<>>
    /\ UNCHANGED <<gpio, calls, web_active_plants, plants_table, system_status, sensor_history, now, simulation_mode, active_plants, config_file, pump_status>>

\* Ctrl+C while the loop runs: inside the try block the handler clears the
\* flag and the loop ends at its next test; inside the backoff sleep the
\* exception leaves start_monitoring with the flag still set
KeyboardInterrupt ==
    /\ monitor_pc.at # "idle"
    /\ monitor_pc' = [running |-> (monitor_pc.at = "backoff" /\ monitor_pc.running),
                      at |-> "idle", sleep |-> 0]
    /\ returned' = NoReturn
    /\ pump_log' = <<>>
    /\ status_log' = <<>>
    /\ UNCHANGED <<gpio, calls, web_active_plants, plants_table, system_status, sensor_history, now, simulation_mode, active_plants, config_file, pump_status>>

\* planter.running = False, set from outside the loop
ClearRunning ==
    /\ monitor_pc.running
    /\ monitor_pc' = [monitor_pc EXCEPT !.running = FALSE]
    /\ returned' = NoReturn
    /\ pump_log' = <<>>
    /\ status_log' = <<>>
    /\ UNCHANGED <<gpio, calls, web_active_plants, plants_table, system_status, sensor_history, now, simulation_mode, active_plants, config_file, pump_status>>

CheckPlants ==
    /\ monitor_pc.at = "check_plants"
    /\ LET plants_needing_water == get_plants_needing_water(active_plants, now)
       IN  \E faults \in [1..Len(plants_needing_water) -> FaultsOf(simulation_mode)] :
              LET st == WaterEach(Progress(active_plants, pump_status), simulation_mode,
                                  PositionsOf(plants_needing_water), faults, 1, now)
              IN  Finish("check_plants", st, AfterCall(st.raised, "log_sensor_data", 0))

\* the soil-moisture readings of a snapshot; the other quantities read mid-range
SoilReadings == {None, <<0>>, <<15>>, <<30>>, <<45>>}

SensorSnapshots ==
    {[temperature_celsius |-> <<22>>, humidity_percent |-> <<55>>,
      soil_moisture_percent |-> soil, light_lux |-> <<150>>] : soil \in SoilReadings}

\* log_sensor_data on the snapshot its read_all_sensors call returned, which
\* the step leaves in returned.args
LogSensorData ==
    /\ monitor_pc.at = "log_sensor_data"
    /\ \E sensor_data \in SensorSnapshots :
          LET waterings == AutoWaterings(active_plants, sensor_data, 1, 1)
          IN  \E faults \in [1..Len(waterings) -> FaultsOf(simulation_mode)] :
                 LET st == WaterEach(Progress(active_plants, pump_status),
                                     simulation_mode, waterings, faults, 1, now)
                 IN  FinishWith("log_sensor_data", <<sensor_data>>, st,
                                AfterCall(st.raised, "sleep", CycleSeconds))

\* the positions of the planter the monitoring loop runs on
MaxMonitored == 0
Monitored == 0..MaxMonitored

Init ==
    /\ now = 0
    /\ active_plants = <<>>
    /\ config_file = <<>>
    /\ InitHardware
    /\ web_active_plants = <<>>

Next ==
    \/ Tick
    \/ \E plant_name \in PlantNames \cup {"Unknown"}, position \in Monitored :
          AddPlant(plant_name, position)
    \/ \E position \in Monitored : RemovePlant(position)
    \/ \E position \in Monitored, status \in Statuses : UpdatePlantStatus(position, status)
    \/ StartMonitoring
    \/ CheckPlants
    \/ LogSensorData
    \/ Wake
    \/ KeyboardInterrupt
    \/ ClearRunning

Spec == Init /\ [][Next]_vars

----------------------------------------------------------------------------
(* AutomatedPlanterDemo.demo_2_water_pump_implementation: a run of pump 1, *)
(* a run of pump 2, a watering of every plant that is due, and a long run  *)
(* of pump 1.  The demo is a process of its own, started on whatever       *)
(* configuration the planter has at that time; nothing in it catches an    *)
(* exception.                                                              *)

NoPlant == [position |-> -1, status |-> "none"]

\* a control_pump call of the demo that is no watering of a plant
PumpTest(st, simulation, pump_number, duration, fault, t) ==
    LET outcome == control_pump(st.ps, simulation, pump_number, duration, fault, t)
        called == Append(st.pump_log,
                         PumpCall(NoPlant, NoPlant.position, pump_number, duration, outcome))
    IN  IF st.raised THEN st
        ELSE [st EXCEPT !.ps = outcome.pump_status, !.pump_log = called,
                        !.raised = outcome.raised]

\* the body of the demo's loop over plants_needing_water
DemoWatering(st, simulation, plant, fault, t) ==
    LET position == plant.position
        water_amount == plant.custom_settings.water_amount
        duration == PumpDuration(water_amount)
        pump_num == PumpNumber(position)
        outcome == control_pump(st.ps, simulation, pump_num, duration, fault, t)
        called == Append(st.pump_log, PumpCall(plant, position, pump_num, duration, outcome))
    IN  IF st.raised THEN st
        ELSE IF outcome.raised
        THEN [st EXCEPT !.ps = outcome.pump_status, !.pump_log = called, !.raised = TRUE]
        ELSE [st EXCEPT !.ap = SetWatered(st.ap, position, t),
                        !.ps = outcome.pump_status,
                        !.pump_log = called,
                        !.saved = TRUE]

RECURSIVE DemoWaterEach(_, _, _, _, _, _)
DemoWaterEach(st, simulation, plants, faults, i, t) ==
    IF i > Len(plants) THEN st
    ELSE DemoWaterEach(DemoWatering(st, simulation, plants[i], faults[i + 2], t),
                       simulation, plants, faults, i + 1, t)

demo_2_water_pump_implementation(ap, ps, simulation, faults, t) ==
    LET plants_needing_water == get_plants_needing_water(ap, t)
        pump1 == PumpTest(Progress(ap, ps), simulation, 1, 3000, faults[1], t)
        pump2 == PumpTest(pump1, simulation, 2, 2000, faults[2], t)
        watered == DemoWaterEach(pump2, simulation, plants_needing_water, faults, 1, t)
    IN  PumpTest(watered, simulation, 1, 5000, faults[Len(faults)], t)

\* the GPIO faults of a run of n control_pump calls: at most one call is hit
FaultPlans(simulation, n) ==
    {[i \in 1..n |-> IF i = k THEN fault ELSE "none"] :
        k \in 1..n, fault \in FaultsOf(simulation)}

Demo2 ==
    \E faults \in FaultPlans(simulation_mode,
                             3 + Len(get_plants_needing_water(active_plants, now))) :
       Finish("demo_2",
              demo_2_water_pump_implementation(active_plants, pump_status,
                                               simulation_mode, faults, now),
              monitor_pc)

InitDemo ==
    /\ now = 0
    /\ active_plants = <<>>
    /\ config_file = <<>>
    /\ InitHardware
    /\ web_active_plants = <<>>

NextDemo ==
    \/ Tick
    \/ \E plant_name \in PlantNames, position \in Positions : AddPlant(plant_name, position)
    \/ Demo2

SpecDemo == InitDemo /\ [][NextDemo]_vars

----------------------------------------------------------------------------
(* A PlantConfig that starts with no active plants, driven by add_plant    *)
(* and remove_plant calls only.                                            *)

MaxSlot == 2
Slots == 0..MaxSlot

NextConfig ==
    \/ \E plant_name \in PlantNames \cup {"Unknown"}, position \in Slots :
          AddPlant(plant_name, position)
    \/ \E position \in Slots : RemovePlant(position)

SpecConfig == Init /\ [][NextConfig]_vars

----------------------------------------------------------------------------
(* AutomatedPlanter.trigger_watering called for any position, on a         *)
(* configuration holding one plant at some position, negative ones         *)
(* included.                                                               *)

MaxOffset == 2
WateringPositions == (0 - MaxOffset)..MaxOffset

InitWatering ==
    /\ now = 0
    /\ \E name \in PlantNames, position \in WateringPositions :
          active_plants = <<NewPlantConfig(Plants[name], position)>>
    /\ config_file = active_plants
    /\ InitHardware
    /\ web_active_plants = <<>>

TriggerWatering(position) ==
    \E fault \in FaultsOf(simulation_mode) :
       Finish("trigger_watering",
              trigger_watering(Progress(active_plants, pump_status), simulation_mode,
                               position, fault, now),
              monitor_pc)

NextWatering ==
    \/ Tick
    \/ \E position \in WateringPositions : TriggerWatering(position)

SpecWatering == InitWatering /\ [][NextWatering]_vars

----------------------------------------------------------------------------
(* HardwareInterface.control_pump called directly, with any pump number    *)
(* and duration.                                                           *)

MaxPump == 3
PumpNumbers == 0..MaxPump
Durations == {-1000, 0, 2500}

ControlPump(pump_number, duration, fault) ==
    LET outcome == control_pump(pump_status, simulation_mode, pump_number, duration,
                                fault, now)
    IN  /\ pump_status' = outcome.pump_status
        /\ pump_log' = <<PumpCall(NoPlant, NoPlant.position, pump_number, duration, outcome)>>
        /\ status_log' = <<>>
        /\ returned' = [op |-> "control_pump", args |-> <<pump_number, duration>>,
                        value |-> IF outcome.raised THEN Raise("Exception")
                                  ELSE [returns |-> outcome.success]]
        /\ UNCHANGED <<gpio, calls, web_active_plants, plants_table, system_status, sensor_history, now, simulation_mode, active_plants, config_file, monitor_pc>>

NextPump ==
    \/ Tick
    \/ \E pump_number \in PumpNumbers, duration \in Durations,
          fault \in FaultsOf(simulation_mode) :
          ControlPump(pump_number, duration, fault)

SpecPump == Init /\ [][NextPump]_vars

----------------------------------------------------------------------------
(* HardwareInterface sensor readers and read_all_sensors.  A number that   *)
(* the code rounds to one decimal is held in tenths; what a device         *)
(* delivers before rounding is held in hundredths.                         *)

\* round(x, 1) of x given in hundredths
RoundTenths(hundredths) == (hundredths + 5) \div 10

\* (temperature, humidity) of read_dht22
read_dht22(simulation, input) ==
    IF simulation THEN <<input.simulated.temperature, input.simulated.humidity>>
    ELSE IF input.device.dht.raised THEN <<None, None>>
    ELSE IF input.device.dht.humidity # None /\ input.device.dht.temperature # None
    THEN <<<<RoundTenths(input.device.dht.temperature[1])>>,
           <<RoundTenths(input.device.dht.humidity[1])>>>>
    ELSE <<None, None>>

\* round((raw_value / 1023.0) * 100, 1)
read_soil_moisture(simulation, input) ==
    IF simulation THEN input.simulated.soil_moisture
    ELSE IF input.device.soil.raised THEN None
    ELSE <<(input.device.soil.raw * 2000 + 1023) \div 2046>>

\* round(lux, 1) of the integer lux read over I2C
read_light_sensor(simulation, input) ==
    IF simulation THEN input.simulated.light
    ELSE IF input.device.light.raised THEN None
    ELSE <<input.device.light.lux * 10>>

Dry == [top |-> FALSE, middle |-> FALSE, bottom |-> FALSE]

read_water_level(simulation, input) ==
    IF simulation THEN input.simulated.water_levels
    ELSE IF input.device.water.raised THEN Dry
    ELSE input.device.water.levels

_calculate_water_percentage(water_levels) ==
    IF water_levels.top THEN <<1000>>
    ELSE IF water_levels.middle THEN <<667>>
    ELSE IF water_levels.bottom THEN <<333>>
    ELSE <<0>>

\* the sensor_data dict built by read_all_sensors
read_all_sensors(simulation, ps, input, t) ==
    LET dht == read_dht22(simulation, input)
        water_levels == read_water_level(simulation, input)
    IN  [timestamp |-> isoformat(t),
         temperature_celsius |-> dht[1],
         humidity_percent |-> dht[2],
         soil_moisture_percent |-> read_soil_moisture(simulation, input),
         light_lux |-> read_light_sensor(simulation, input),
         water_levels |-> water_levels,
         water_tank_percentage |-> _calculate_water_percentage(water_levels),
         pump_status |-> ps]

HardwareCapacity == 100
CoreCapacity == 50

\* a history that drops the newest snapshots instead of the oldest
Retain_KeepsOldest(history, capacity) ==
    IF Len(history) > capacity THEN SubSeq(history, 1, capacity) ELSE history

\* history[-capacity:] when the history is longer than the capacity
Retain(history, capacity) ==
    IF Len(history) > capacity
    THEN SubSeq(history, Len(history) - capacity + 1, Len(history))
    ELSE history

\* what the devices deliver to one read_all_sensors call on real hardware
DhtDevices ==
    {[raised |-> TRUE, temperature |-> None, humidity |-> None],
     [raised |-> FALSE, temperature |-> None, humidity |-> None],
     [raised |-> FALSE, temperature |-> None, humidity |-> <<5512>>],
     [raised |-> FALSE, temperature |-> <<2156>>, humidity |-> <<5512>>]}
SoilDevices == {[raised |-> TRUE, raw |-> 0], [raised |-> FALSE, raw |-> 0],
                [raised |-> FALSE, raw |-> 512]}
LightDevices == {[raised |-> TRUE, lux |-> 0], [raised |-> FALSE, lux |-> 150]}
WaterDevices ==
    {[raised |-> TRUE, levels |-> Dry],
     [raised |-> FALSE, levels |-> Dry],
     [raised |-> FALSE, levels |-> [top |-> FALSE, middle |-> TRUE, bottom |-> TRUE]],
     [raised |-> FALSE, levels |-> [top |-> TRUE, middle |-> TRUE, bottom |-> TRUE]]}
Devices ==
    [dht : DhtDevices, soil : SoilDevices, light : LightDevices, water : WaterDevices]

\* what the random generators of the simulation deliver
Simulated ==
    [temperature : {<<215>>}, humidity : {<<480>>}, soil_moisture : {<<300>>},
     light : {<<1500>>},
     water_levels : {Dry, [top |-> TRUE, middle |-> TRUE, bottom |-> TRUE]}]

NoDevice == CHOOSE d \in Devices : \A k \in DOMAIN d : ~d[k].raised /\ d.water.levels.top
                                                       /\ d.soil.raw > 0
                                                       /\ d.dht.temperature # None
NoSimulated == CHOOSE m \in Simulated : m.water_levels.top

SensorInputs(simulation) ==
    IF simulation THEN {[simulated |-> m, device |-> NoDevice] : m \in Simulated}
    ELSE {[simulated |-> NoSimulated, device |-> d] : d \in Devices}

\* HardwareInterface.read_all_sensors
ReadAllSensors(input) ==
    LET sensor_data == read_all_sensors(simulation_mode, pump_status, input, now)
    IN  /\ sensor_history' =
               [sensor_history EXCEPT
                    !.hardware = Retain(Append(@, sensor_data), HardwareCapacity),
                    !.last = sensor_data]
        /\ returned' = [op |-> "read_all_sensors", args |-> <<input>>,
                        value |-> sensor_data]
        /\ pump_log' = <<>>
        /\ status_log' = <<>>
        /\ UNCHANGED <<gpio, calls, web_active_plants, plants_table, system_status, now, simulation_mode, active_plants, config_file,
                       pump_status, monitor_pc>>

----------------------------------------------------------------------------
(* RaspberryPiCore: its own snapshot history around the hardware's, and    *)
(* its validation of a fresh snapshot against fixed ranges.                *)

\* sensor_data.get(key, default)
DictGetDefault(d, key, default) == IF key \in DOMAIN d THEN d[key] ELSE default

\* "OK" if lo <= sensor_data.get(key, 0) <= hi else "CHECK", bounds in tenths
RangeStatus(sensor_data, key, lo, hi) ==
    LET value == DictGetDefault(sensor_data, key, <<0>>)
    IN  IF value = None THEN Raise("TypeError")
        ELSE [value |-> DictGet(sensor_data, key),
              status |-> IF lo <= value[1] /\ value[1] <= hi THEN "OK" ELSE "CHECK"]

CorePositions == {0, 1, 2}

\* the validation_results of validate_sensor_readings for a snapshot
validate_sensor_readings(sensor_data) ==
    LET plant_validation ==
            [soil_moisture |-> RangeStatus(sensor_data, "soil_moisture_percent", 200, 700),
             temperature |-> RangeStatus(sensor_data, "temperature_celsius", 150, 300),
             humidity |-> RangeStatus(sensor_data, "humidity_percent", 300, 800),
             light |-> RangeStatus(sensor_data, "light_lux", 500, 5000)]
    IN  IF \E k \in DOMAIN plant_validation : Raised(plant_validation[k])
        THEN Raise("TypeError")
        ELSE [position \in CorePositions |-> plant_validation]

\* RaspberryPiCore.read_all_sensors, as a change of the histories
CoreRead(sensor_data) ==
    [sensor_history EXCEPT
         !.hardware = Retain(Append(@, sensor_data), HardwareCapacity),
         !.last = sensor_data,
         !.core = Retain(Append(@, sensor_data), CoreCapacity)]

CoreReadAllSensors(input) ==
    LET sensor_data == read_all_sensors(simulation_mode, pump_status, input, now)
    IN  /\ sensor_history' = CoreRead(sensor_data)
        /\ returned' = [op |-> "core_read_all_sensors", args |-> <<input>>,
                        value |-> sensor_data]
        /\ pump_log' = <<>>
        /\ status_log' = <<>>
        /\ UNCHANGED <<gpio, calls, web_active_plants, plants_table, system_status, now, simulation_mode, active_plants, config_file,
                       pump_status, monitor_pc>>

CoreValidateSensorReadings(input) ==
    LET sensor_data == read_all_sensors(simulation_mode, pump_status, input, now)
    IN  /\ sensor_history' = CoreRead(sensor_data)
        /\ returned' = [op |-> "validate_sensor_readings", args |-> <<input>>,
                        value |-> validate_sensor_readings(sensor_data)]
        /\ pump_log' = <<>>
        /\ status_log' = <<>>
        /\ UNCHANGED <<gpio, calls, web_active_plants, plants_table, system_status, now, simulation_mode, active_plants, config_file,
                       pump_status, monitor_pc>>

\* the reads of a behaviour of the sensor specification
MaxReads == 2

NextSensors ==
    \/ Tick
    \/ \E input \in SensorInputs(simulation_mode) :
          /\ Len(sensor_history.hardware) < MaxReads
          /\ \/ ReadAllSensors(input)
             \/ CoreValidateSensorReadings(input)

SpecSensors == Init /\ [][NextSensors]_vars

----------------------------------------------------------------------------
(* The snapshot histories over a long run of RaspberryPiCore reads, every  *)
(* sensor working; the snapshots differ by their timestamps.               *)

MaxHistoryTime == 1

HistoryTick ==
    /\ now < MaxHistoryTime
    /\ now' = now + 1
    /\ returned' = NoReturn
    /\ UNCHANGED <<gpio, calls, web_active_plants, plants_table, system_status, sensor_history, simulation_mode, active_plants, config_file,
                   pump_status, pump_log, status_log, monitor_pc>>

NominalInput(simulation) ==
    CHOOSE input \in SensorInputs(simulation) :
        /\ input.simulated = NoSimulated
        /\ input.device = NoDevice

NextHistory ==
    \/ HistoryTick
    \/ CoreReadAllSensors(NominalInput(simulation_mode))

SpecHistory == Init /\ [][NextHistory]_vars

----------------------------------------------------------------------------
(* The watering schedule of one plant: a configuration holding one plant  *)
(* added at position 0, its watering times and status updated through     *)
(* PlantConfig, and the needs-watering check read at any time.             *)

InitSchedule ==
    /\ now = 0
    /\ \E name \in PlantNames :
          active_plants = <<NewPlantConfig(Plants[name], 0)>>
    /\ config_file = active_plants
    /\ InitHardware
    /\ web_active_plants = <<>>
    /\ simulation_mode = TRUE

ScheduleTick ==
    /\ now < ScheduleHorizon
    /\ now' = now + 1
    /\ returned' = NoReturn
    /\ UNCHANGED <<gpio, calls, web_active_plants, plants_table, system_status, sensor_history, simulation_mode, active_plants, config_file, pump_status,
                   pump_log, status_log, monitor_pc>>

NextSchedule ==
    \/ ScheduleTick
    \/ UpdateWateringTime(0)
    \/ \E status \in Statuses : UpdatePlantStatus(0, status)
    \/ GetPlantsNeedingWater

SpecSchedule == InitSchedule /\ [][NextSchedule]_vars

----------------------------------------------------------------------------
(* validate_sensor_reading as a function of its inputs: a configuration   *)
(* holding one plant at position 0, validated at every position, for      *)
(* every sensor type and for readings around every bound of the plants    *)
(* table, the readings of the documented examples, and a missing reading. *)

BoundsOf(plant) ==
    {plant.soil_moisture_min, plant.soil_moisture_max,
     plant.temperature_min, plant.temperature_max,
     plant.humidity_min, plant.humidity_max,
     plant.light_min, plant.light_max}

ReadingValues ==
    {0, 15, 550} \cup
    UNION {UNION {(b - ReadingMargin)..(b + ReadingMargin) : b \in BoundsOf(Plants[n])}
                : n \in PlantNames}

\* a reading: a number, or None when the sensor produced no value
Readings == {<<v>> : v \in ReadingValues} \cup {None}

InitValidate ==
    /\ now = 0
    /\ \E name \in PlantNames :
          active_plants = <<NewPlantConfig(Plants[name], 0)>>
    /\ config_file = active_plants
    /\ InitHardware
    /\ web_active_plants = <<>>
    /\ simulation_mode = TRUE

\* a validation that records the moment of the check in the plant and saves
ValidateSensorReading_MarksChecked(position, sensor_type, value) ==
    LET checked == IF IndexAt(active_plants, position) = 0 THEN active_plants
                   ELSE SetStatus(active_plants, position,
                                  active_plants[IndexAt(active_plants, position)].status,
                                  now)
    IN  /\ returned' = [op |-> "validate_sensor_reading",
                        args |-> <<position, sensor_type, value>>,
                        value |-> validate_sensor_reading(active_plants, position,
                                                          sensor_type, value)]
        /\ active_plants' = checked
        /\ config_file' = checked
        /\ pump_log' = <<>>
        /\ status_log' = <<>>
        /\ UNCHANGED <<gpio, calls, web_active_plants, plants_table, system_status, sensor_history, now, simulation_mode,
                       pump_status, monitor_pc>>

ValidateSensorReading(position, sensor_type, value) ==
    /\ returned' = [op |-> "validate_sensor_reading",
                    args |-> <<position, sensor_type, value>>,
                    value |-> validate_sensor_reading(active_plants, position,
                                                      sensor_type, value)]
    /\ pump_log' = <<>>
    /\ status_log' = <<>>
    /\ UNCHANGED <<gpio, calls, web_active_plants, plants_table, system_status, sensor_history, now, simulation_mode, active_plants, config_file, pump_status,
                   monitor_pc>>

NextValidate ==
    \E position \in Positions, sensor_type \in SensorTypes \cup {"ph"},
       value \in Readings :
        ValidateSensorReading(position, sensor_type, value)

SpecValidate == InitValidate /\ [][NextValidate]_vars

----------------------------------------------------------------------------
(* RaspberryPiCore's watering: its three fixed plants, the one last_watered *)
(* time it keeps for all of them in system_status["pump_status"], the check *)
(* of the plants that are due and the watering of one plant.                *)

\* RaspberryPiCore.plant_config["active_plants"]
CorePlants ==
    << [name |-> "Snake Plant", position |-> 0, water_amount |-> 250,
        watering_frequency |-> 14],
       [name |-> "Peace Lily", position |-> 1, water_amount |-> 300,
        watering_frequency |-> 7],
       [name |-> "Spider Plant", position |-> 2, water_amount |-> 200,
        watering_frequency |-> 7] >>

\* the test the loop of check_plants_needing_water makes on one plant
CoreNeedsWater(plant, status, current_time) ==
    LET last_watered == status.pump_status.last_watered
    IN  IF Truthy(last_watered)
        THEN DaysBetween(current_time, fromisoformat(last_watered))
                 >= plant.watering_frequency
        ELSE TRUE

\* the list check_plants_needing_water builds
check_plants_needing_water(plants, status, current_time) ==
    SelectSeq(plants, LAMBDA plant : CoreNeedsWater(plant, status, current_time))

CoreCheckPlantsNeedingWater ==
    LET plants_needing_water ==
            check_plants_needing_water(CorePlants, system_status, now)
    IN  /\ system_status' =
               [system_status EXCEPT !.plants_needing_water = plants_needing_water]
        /\ returned' = [op |-> "check_plants_needing_water", args |-> <<>>,
                        value |-> plants_needing_water]
        /\ pump_log' = <<>>
        /\ status_log' = <<>>
        /\ UNCHANGED <<gpio, calls, web_active_plants, plants_table, sensor_history, now, simulation_mode, active_plants,
                       config_file, pump_status, monitor_pc>>

\* RaspberryPiCore.manual_water_plant: water_plant on the plant of
\* plant_config at the position
CoreWaterPlant(position, fault) ==
    LET plant == CorePlants[position + 1]
        pump_num == PumpNumber(plant.position)
        duration == PumpDuration(plant.water_amount)
        outcome == control_pump(pump_status, simulation_mode, pump_num, duration,
                                fault, now)
    IN  /\ pump_status' = outcome.pump_status
        /\ system_status' =
               IF outcome.success
               THEN [system_status EXCEPT !.pump_status.last_watered = isoformat(now)]
               ELSE system_status
        /\ pump_log' = <<PumpCall(NoPlant, plant.position, pump_num, duration, outcome)>>
        /\ status_log' = <<>>
        /\ returned' = [op |-> "water_plant", args |-> <<position>>,
                        value |-> IF outcome.raised THEN Raise("Exception")
                                  ELSE [returns |-> outcome.success]]
        /\ UNCHANGED <<gpio, calls, web_active_plants, plants_table, sensor_history, now, simulation_mode, active_plants,
                       config_file, monitor_pc>>

NextCore ==
    \/ ScheduleTick
    \/ CoreCheckPlantsNeedingWater
    \/ \E position \in CorePositions, fault \in FaultsOf(simulation_mode) :
          CoreWaterPlant(position, fault)

SpecCore == Init /\ [][NextCore]_vars

----------------------------------------------------------------------------
(* PlantDatabase: rows created and updated in the plants table, and the    *)
(* profiles add_plant copies from it.                                      *)

\* the row create_plant inserts: the twelve columns of plant_data under the
\* next rowid
create_plant(table, plant_data) ==
    [id |-> Len(table) + 1, name |-> plant_data.name,
     water_amount |-> plant_data.water_amount,
     watering_frequency |-> plant_data.watering_frequency,
     light_min |-> plant_data.light_min, light_max |-> plant_data.light_max,
     soil_moisture_min |-> plant_data.soil_moisture_min,
     soil_moisture_max |-> plant_data.soil_moisture_max,
     humidity_min |-> plant_data.humidity_min, humidity_max |-> plant_data.humidity_max,
     temperature_min |-> plant_data.temperature_min,
     temperature_max |-> plant_data.temperature_max]

\* UPDATE plants SET key = ? for every key of plant_data but id whose value
\* is not None; the values of plant_data are None or <<number>>
update_plant(row, plant_data) ==
    [key \in DOMAIN row |->
        IF key \in DOMAIN plant_data /\ key # "id" /\ plant_data[key] # None
        THEN plant_data[key][1]
        ELSE row[key]]

\* PlantDatabase.get_plant_by_id
get_plant_by_id(table, plant_id) ==
    IF plant_id \in 1..Len(table) THEN table[plant_id] ELSE None

MaxRows == 3

CreatePlant(plant_data) ==
    /\ Len(plants_table) < MaxRows
    /\ plants_table' = Append(plants_table, create_plant(plants_table, plant_data))
    /\ returned' = [op |-> "create_plant", args |-> <<plant_data>>,
                    value |-> get_plant_by_id(plants_table', Len(plants_table'))]
    /\ pump_log' = <<>>
    /\ status_log' = <<>>
    /\ UNCHANGED <<gpio, calls, web_active_plants, system_status, sensor_history, now,
                   simulation_mode, active_plants, config_file, pump_status, monitor_pc>>

UpdatePlant(plant_id, plant_data) ==
    /\ plants_table' =
           IF plant_id \in 1..Len(plants_table)
           THEN [plants_table EXCEPT ![plant_id] = update_plant(@, plant_data)]
           ELSE plants_table
    /\ returned' = [op |-> "update_plant", args |-> <<plant_id, plant_data>>,
                    value |-> get_plant_by_id(plants_table', plant_id)]
    /\ pump_log' = <<>>
    /\ status_log' = <<>>
    /\ UNCHANGED <<gpio, calls, web_active_plants, system_status, sensor_history, now,
                   simulation_mode, active_plants, config_file, pump_status, monitor_pc>>

\* the plant_data of the create_plant calls: a sound profile, one that waters
\* nothing, one that asks for 3.5 l and one whose light bounds are the wrong
\* way round
NewProfiles ==
    { [name |-> "Fern", water_amount |-> w, watering_frequency |-> 3,
       light_min |-> light[1], light_max |-> light[2],
       soil_moisture_min |-> 30, soil_moisture_max |-> 60,
       humidity_min |-> 40, humidity_max |-> 70,
       temperature_min |-> 18, temperature_max |-> 26] :
         w \in {0, 150, 3500}, light \in {<<100, 300>>, <<300, 100>>} }

\* the plant_data of the update_plant calls
ProfileUpdates ==
    { [humidity_max |-> <<65>>, humidity_min |-> None],
      [soil_moisture_min |-> <<90>>, id |-> <<7>>] }

UpdatedIds == {1, MaxRows, MaxRows + 1}

NextCatalog ==
    \/ \E plant_data \in NewProfiles : CreatePlant(plant_data)
    \/ \E plant_id \in UpdatedIds, plant_data \in ProfileUpdates :
          UpdatePlant(plant_id, plant_data)
    \/ \E plant_name \in PlantNames \cup {"Fern"} : AddPlant(plant_name, 0)
    \/ RemovePlant(0)

SpecCatalog == Init /\ [][NextCatalog]_vars

----------------------------------------------------------------------------
(* Waterings of the profiles the catalog can hold, against the             *)
(* safety_timeout of the water pump in the default configuration.          *)

\* actuators.water_pump.safety_timeout, 30 seconds, in milliseconds
SafetyTimeout == 30000

NextTimeout ==
    \/ Tick
    \/ \E plant_data \in NewProfiles : CreatePlant(plant_data)
    \/ \E plant_name \in PlantNames \cup {"Fern"} : AddPlant(plant_name, 0)
    \/ RemovePlant(0)
    \/ TriggerWatering(0)

SpecTimeout == Init /\ [][NextTimeout]_vars

----------------------------------------------------------------------------
(* IntegratedAutomatedPlanter.check_and_water_plants, one call per cycle   *)
(* of its monitoring loop.  The website is outside the program: what its   *)
(* endpoints answer is an input of the call.  system_status is here the    *)
(* system_status of the integrated planter, which has the same fields.     *)

\* the plants of the website database as GET /api/plants returns them; each
\* may or may not carry status "active"
WebsiteRow(row, status) ==
    [id |-> row.id, name |-> row.name, water_amount |-> row.water_amount,
     watering_frequency |-> row.watering_frequency, status |-> status]

WebsitePlantLists ==
    {<<WebsiteRow(Plants.SnakePlant, s1), WebsiteRow(Plants.PeaceLily, s2)>> :
        s1 \in {"active", "inactive"}, s2 \in {"active", "inactive"}}

\* what GET /api/plants/needing-water does: answer 200 with a list of plants,
\* answer another status code, or fail at the connection
Endpoints == {"ok", "not_found", "down"}

\* WebsiteDatabaseClient._check_plants_needing_water_locally
check_plants_needing_water_locally(all_plants) ==
    SelectSeq(all_plants, LAMBDA plant : plant.status = "active")

\* WebsiteDatabaseClient.get_plants_needing_water
website_plants_needing_water(endpoint, answer, all_plants) ==
    IF endpoint = "ok" THEN answer
    ELSE check_plants_needing_water_locally(all_plants)

\* the for loop of check_and_water_plants from its i-th plant on; an
\* exception of control_pump ends the loop
RECURSIVE IntegratedWaterEach(_, _, _, _, _, _)
IntegratedWaterEach(st, simulation, plants, faults, i, t) ==
    IF i > Len(plants) \/ st.raised THEN st
    ELSE LET plant == plants[i]
             duration == PumpDuration(plant.water_amount)
             outcome == control_pump(st.ps, simulation, 1, duration, faults[i], t)
             watered ==
                 [st EXCEPT
                    !.ps = outcome.pump_status,
                    !.pump_log = Append(@, PumpCall(plant, plant.id, 1, duration, outcome)),
                    !.raised = outcome.raised,
                    !.last_watered = IF outcome.success THEN isoformat(t) ELSE @]
         IN  IntegratedWaterEach(watered, simulation, plants, faults, i + 1, t)

CheckAndWaterPlants(connected, endpoint, answer, all_plants) ==
    LET plants_needing_water == website_plants_needing_water(endpoint, answer, all_plants)
    IN  \E faults \in [1..Len(plants_needing_water) -> FaultsOf(simulation_mode)] :
           LET st == IntegratedWaterEach(
                         [ps |-> pump_status, pump_log |-> <<>>, raised |-> FALSE,
                          last_watered |-> system_status.pump_status.last_watered],
                         simulation_mode, plants_needing_water, faults, 1, now)
           IN  /\ pump_status' = IF connected THEN st.ps ELSE pump_status
               /\ pump_log' = IF connected THEN st.pump_log ELSE <<>>
               /\ system_status' =
                      IF connected
                      THEN [system_status EXCEPT
                              !.plants_needing_water = plants_needing_water,
                              !.pump_status.last_watered = st.last_watered]
                      ELSE system_status
               /\ returned' = [op |-> "check_and_water_plants",
                               args |-> <<connected, endpoint>>, value |-> <<>>]
               /\ status_log' = <<>>
               /\ UNCHANGED <<gpio, calls, web_active_plants, plants_table, sensor_history,
                              now, simulation_mode, active_plants, config_file,
                              monitor_pc>>

\* the lists a website that answers 200 may send
WebsiteAnswers(all_plants) ==
    {<<>>, <<all_plants[1]>>, <<all_plants[2]>>, all_plants}

NextIntegrated ==
    \/ Tick
    \/ \E connected \in BOOLEAN, endpoint \in Endpoints,
          all_plants \in WebsitePlantLists :
          \E answer \in WebsiteAnswers(all_plants) :
             CheckAndWaterPlants(connected, endpoint, answer, all_plants)

SpecIntegrated == Init /\ [][NextIntegrated]_vars

----------------------------------------------------------------------------
(* raspberry_pi_api: POST /api/water/<position> requests handled by the    *)
(* threads of the server, each running manual_water_plant, water_plant and *)
(* control_pump statement by statement on the one HardwareInterface.  No   *)
(* lock is taken anywhere on the way.  The GPIO calls succeed.             *)

PumpName(pump_number) == IF pump_number = 1 THEN "pump1" ELSE "pump2"

\* a step of a request that has not returned yet
InFlight(thread, call) ==
    /\ calls' = [calls EXCEPT ![thread] = call]
    /\ returned' = NoReturn
    /\ pump_log' = <<>>
    /\ status_log' = <<>>
    /\ UNCHANGED <<web_active_plants, plants_table, sensor_history, now, simulation_mode,
                   active_plants, config_file, monitor_pc>>

\* the request arrives: manual_water_plant finds the plant, water_plant
\* computes the duration and the pump and enters control_pump
WaterRequest(thread, position) ==
    LET plant == CorePlants[position + 1]
    IN  /\ calls[thread].pc = "idle"
        /\ InFlight(thread, [pc |-> "enable", position |-> position,
                              pump |-> PumpNumber(plant.position),
                              duration |-> PumpDuration(plant.water_amount)])
        /\ UNCHANGED <<gpio, pump_status, system_status>>

\* GPIO.output(pump_enable_pin, HIGH) and the 0.1 s MOSFET delay
PumpEnable(thread) ==
    /\ calls[thread].pc = "enable"
    /\ gpio' = IF simulation_mode THEN gpio ELSE [gpio EXCEPT !.enable = TRUE]
    /\ InFlight(thread, [calls[thread] EXCEPT !.pc = "start"])
    /\ UNCHANGED <<pump_status, system_status>>

\* GPIO.output(pump_pin, HIGH), pump_status[pump_name] = True and the start
\* of time.sleep(duration_seconds)
PumpStart(thread) ==
    /\ calls[thread].pc = "start"
    /\ gpio' = IF simulation_mode THEN gpio
               ELSE [gpio EXCEPT ![PumpName(calls[thread].pump)] = TRUE]
    /\ pump_status' = [pump_status EXCEPT ![PumpName(calls[thread].pump)] = TRUE]
    /\ InFlight(thread, [calls[thread] EXCEPT !.pc = "running"])
    /\ UNCHANGED system_status

\* the sleep has lasted duration_seconds: GPIO.output(pump_pin, LOW)
PumpStop(thread) ==
    /\ calls[thread].pc = "running"
    /\ gpio' = IF simulation_mode THEN gpio
               ELSE [gpio EXCEPT ![PumpName(calls[thread].pump)] = FALSE]
    /\ InFlight(thread, [calls[thread] EXCEPT !.pc = "disable"])
    /\ UNCHANGED <<pump_status, system_status>>

\* GPIO.output(pump_enable_pin, LOW), the status update, and the return of
\* True through water_plant, which records the time of the watering
PumpDisable(thread) ==
    /\ calls[thread].pc = "disable"
    /\ gpio' = IF simulation_mode THEN gpio ELSE [gpio EXCEPT !.enable = FALSE]
    /\ pump_status' = [pump_status EXCEPT ![PumpName(calls[thread].pump)] = FALSE,
                                          !.last_watered = isoformat(now)]
    /\ system_status' =
           [system_status EXCEPT !.pump_status.last_watered = isoformat(now)]
    /\ calls' = [calls EXCEPT ![thread] = Idle]
    /\ returned' = [op |-> "water_plant", args |-> <<calls[thread].position>>,
                    value |-> [returns |-> TRUE]]
    /\ pump_log' = <<>>
    /\ status_log' = <<>>
    /\ UNCHANGED <<web_active_plants, plants_table, sensor_history, now, simulation_mode,
                   active_plants, config_file, monitor_pc>>

NextOverlap ==
    \/ Tick
    \/ \E thread \in Threads, position \in CorePositions : WaterRequest(thread, position)
    \/ \E thread \in Threads : PumpEnable(thread)
    \/ \E thread \in Threads : PumpStart(thread)
    \/ \E thread \in Threads : PumpStop(thread)
    \/ \E thread \in Threads : PumpDisable(thread)

SpecOverlap == Init /\ [][NextOverlap]_vars

----------------------------------------------------------------------------
(* The default mode of main.py: the web interface and the monitoring loop  *)
(* in one process.  web_interface has its own PlantConfig, AutomatedPlanter *)
(* another; each loaded plant_config.json once, when it was constructed,   *)
(* and each save_config writes the whole of its own config to that file.   *)

\* the active_plants add_plant leaves and whether it returned True
add_plant(ap, table, plant_name, position) ==
    LET plant == get_plant_by_name(table, plant_name)
        ok == plant # None /\ IndexAt(ap, position) = 0
    IN  [ok |-> ok,
         ap |-> IF ok THEN Append(ap, NewPlantConfig(plant, position)) ELSE ap]

\* the active_plants remove_plant leaves and whether it returned True
remove_plant(ap, position) ==
    LET i == IndexAt(ap, position)
    IN  [ok |-> i # 0,
         ap |-> IF i = 0 THEN ap
                ELSE SubSeq(ap, 1, i - 1) \o SubSeq(ap, i + 1, Len(ap))]

\* a call on the PlantConfig of web_interface: its config and, when it
\* saved, the file
WebCall(op, args, result) ==
    /\ web_active_plants' = result.ap
    /\ config_file' = IF result.ok THEN result.ap ELSE config_file
    /\ returned' = [op |-> op, args |-> args, value |-> <<result.ok>>]
    /\ pump_log' = <<>>
    /\ status_log' = <<>>
    /\ UNCHANGED <<gpio, calls, plants_table, system_status, sensor_history, now,
                   simulation_mode, active_plants, pump_status, monitor_pc>>

\* POST /api/plants/add
ApiAddPlant(plant_name, position) ==
    WebCall("api_add_plant", <<plant_name, position>>,
            add_plant(web_active_plants, plants_table, plant_name, position))

\* DELETE /api/plants/remove/<position>
ApiRemovePlant(position) ==
    WebCall("api_remove_plant", <<position>>, remove_plant(web_active_plants, position))

\* both PlantConfig objects were constructed on the same file, which held one
\* plant at position 0
InitShared ==
    /\ now = 0
    /\ \E name \in PlantNames :
          active_plants = <<NewPlantConfig(Plants[name], 0)>>
    /\ config_file = active_plants
    /\ web_active_plants = active_plants
    /\ InitHardware

NextShared ==
    \/ Tick
    \/ \E plant_name \in PlantNames, position \in Positions :
          ApiAddPlant(plant_name, position)
    \/ \E position \in Positions : ApiRemovePlant(position)
    \/ UpdateWateringTime(0)
    \/ \E status \in Statuses : UpdatePlantStatus(0, status)

SpecShared == InitShared /\ [][NextShared]_vars

----------------------------------------------------------------------------
(* POST /api/plants/add requests handled concurrently by the threads of    *)
(* the web server on the one PlantConfig of web_interface.  add_plant      *)
(* takes no lock: a thread may be suspended between its search of          *)
(* active_plants for the position and its append.                          *)

\* the request arrives and api_add_plant enters add_plant
AddRequest(thread, plant_name, position) ==
    /\ calls[thread].pc = "idle"
    /\ InFlight(thread, [pc |-> "check", plant_name |-> plant_name,
                          position |-> position])
    /\ UNCHANGED <<gpio, pump_status, system_status>>

\* get_plant_by_name and the loop over active_plants looking for the
\* position: add_plant returns False, or goes on to build the plant dict
AddCheck(thread) ==
    LET call == calls[thread]
        plant == get_plant_by_name(plants_table, call.plant_name)
        ok == plant # None /\ IndexAt(web_active_plants, call.position) = 0
    IN  /\ call.pc = "check"
        /\ calls' = [calls EXCEPT ![thread] =
                        IF ok THEN [call EXCEPT !.pc = "append"] ELSE Idle]
        /\ returned' = IF ok THEN NoReturn
                       ELSE [op |-> "api_add_plant",
                             args |-> <<call.plant_name, call.position>>,
                             value |-> <<FALSE>>]
        /\ pump_log' = <<>>
        /\ status_log' = <<>>
        /\ UNCHANGED <<gpio, web_active_plants, plants_table, system_status,
                       sensor_history, now, simulation_mode, active_plants, config_file,
                       pump_status, monitor_pc>>

\* active_plants.append(plant_config), save_config and the return of True
AddAppend(thread) ==
    LET call == calls[thread]
        plant == get_plant_by_name(plants_table, call.plant_name)
    IN  /\ call.pc = "append"
        /\ web_active_plants' =
               Append(web_active_plants, NewPlantConfig(plant, call.position))
        /\ config_file' = web_active_plants'
        /\ calls' = [calls EXCEPT ![thread] = Idle]
        /\ returned' = [op |-> "api_add_plant",
                        args |-> <<call.plant_name, call.position>>,
                        value |-> <<TRUE>>]
        /\ pump_log' = <<>>
        /\ status_log' = <<>>
        /\ UNCHANGED <<gpio, plants_table, system_status, sensor_history, now,
                       simulation_mode, active_plants, pump_status, monitor_pc>>

NextRace ==
    \/ \E thread \in Threads, plant_name \in PlantNames \cup {"Unknown"},
          position \in Positions : AddRequest(thread, plant_name, position)
    \/ \E thread \in Threads : AddCheck(thread)
    \/ \E thread \in Threads : AddAppend(thread)
    \/ \E position \in Positions : ApiRemovePlant(position)

SpecRace == Init /\ [][NextRace]_vars

----------------------------------------------------------------------------
(* Claims on the watering schedule (SpecSchedule) *)

\* the plant of the one-plant configuration
ThePlant == active_plants[1]
TheFrequency == ThePlant.custom_settings.watering_frequency
LastWateredSet == Truthy(ThePlant.last_watered)
ElapsedTicks == now - fromisoformat(ThePlant.last_watered)

\* the whole days in a number of ticks, by the definition of truncation
WholeDays(ticks) ==
    CHOOSE d \in 0..(MaxDays + 1) :
        d * TicksPerDay <= ticks /\ ticks < (d + 1) * TicksPerDay

CheckReturned == returned.op = "get_plants_needing_water"
ReportedDue ==
    \E i \in 1..Len(returned.value) : returned.value[i].position = ThePlant.position

DueNow == NeedsWater(ThePlant, now)
JustWatered == returned.op = "update_watering_time"

----------------------------------------------------------------------------
(* Claims on validate_sensor_reading (SpecValidate) *)

Validated == returned.op = "validate_sensor_reading"
ValidatedPosition == returned.args[1]
ValidatedType == returned.args[2]
ValidatedReading == returned.args[3]
Verdict == returned.value

\* a validation of one of the four quantities for a position holding a plant
ValidatedQuantity ==
    /\ Validated
    /\ ValidatedType \in SensorTypes
    /\ \E i \in 1..Len(active_plants) : active_plants[i].position = ValidatedPosition

\* the bounds of the validated quantity in the profile of the validated plant
ProfileBound(which) ==
    LET settings == active_plants[CHOOSE i \in 1..Len(active_plants) :
                        active_plants[i].position = ValidatedPosition].custom_settings
    IN  CASE ValidatedType = "soil_moisture" ->
                IF which = "min" THEN settings.soil_moisture_min ELSE settings.soil_moisture_max
          [] ValidatedType = "temperature" ->
                IF which = "min" THEN settings.temperature_min ELSE settings.temperature_max
          [] ValidatedType = "humidity" ->
                IF which = "min" THEN settings.humidity_min ELSE settings.humidity_max
          [] ValidatedType = "light" ->
                IF which = "min" THEN settings.light_min ELSE settings.light_max

TooLowAction ==
    [soil_moisture |-> "water", temperature |-> "heat",
     humidity |-> "humidify", light |-> "increase_light"]
TooHighAction ==
    [soil_moisture |-> "drain", temperature |-> "cool",
     humidity |-> "dehumidify", light |-> "decrease_light"]

Flagged(action) ==
    /\ ~Raised(Verdict)
    /\ Verdict.valid = FALSE
    /\ Verdict.action = <<action>>

Accepted ==
    /\ ~Raised(Verdict)
    /\ Verdict.valid = TRUE
    /\ Verdict.action = None

\* C4: for each of the four quantities, a numeric reading below the profile's
\* min bound is invalid with the quantity's too-low action, and one above the
\* max bound is invalid with the quantity's too-high action.
C4_OutOfBoundsFlaggedWithAction ==
    (ValidatedQuantity /\ ValidatedReading # None)
        => /\ ValidatedReading[1] < ProfileBound("min")
                => Flagged(TooLowAction[ValidatedType])
           /\ ValidatedReading[1] > ProfileBound("max")
                => Flagged(TooHighAction[ValidatedType])

\* C4 witness: soil moisture 15 against the bounds [20, 40] is flagged with
\* the action water, the message naming 15 and 20.
C4_Witness ==
    /\ ValidatedQuantity
    /\ ValidatedType = "soil_moisture"
    /\ ValidatedReading = <<15>>
    /\ ProfileBound("min") = 20 /\ ProfileBound("max") = 40
    /\ Flagged("water")
    /\ Verdict.message = <<"Soil too dry", 15, 20>>

\* C5: bounds are inclusive: a reading equal to the min bound, equal to the
\* max bound or between them is valid with no action.
C5_InclusiveBounds ==
    (ValidatedQuantity /\ ValidatedReading # None
        /\ ProfileBound("min") <= ValidatedReading[1]
        /\ ValidatedReading[1] <= ProfileBound("max"))
        => Accepted

\* C5 witness: a reading exactly at the max bound of its quantity is valid.
C5_Witness ==
    /\ ValidatedQuantity /\ ValidatedReading # None
    /\ ValidatedReading[1] = ProfileBound("max")
    /\ Accepted

\* C6: evaluating a quantity never raises, and a missing reading (None) gives
\* valid = true with no action.
C6_NeverRaisesMissingIsValid ==
    ValidatedQuantity
        => /\ ~Raised(Verdict)
           /\ ValidatedReading = None => Accepted

----------------------------------------------------------------------------
(* Claims on watering: what a pump run, successful or failed, does to the  *)
(* plant it was started for.                                               *)

\* the control_pump calls the last step made for the plant at a position
AttemptsOn(log, position) == {i \in DOMAIN log : log[i].position = position}

LastWateredAt(ap, position) == get_plant_at_position(ap, position).last_watered
StatusAt(ap, position) == get_plant_at_position(ap, position).status

\* a position whose plant the last step ran the pump for, without success
FailedOn(log, position) ==
    /\ AttemptsOn(log, position) # {}
    /\ \A i \in AttemptsOn(log, position) : ~log[i].success

\* a position whose plant the last step ran the pump for, control_pump
\* returning False each time
ReturnedFalseOn(log, position) ==
    /\ AttemptsOn(log, position) # {}
    /\ \A i \in AttemptsOn(log, position) : ~log[i].success /\ ~log[i].raised

\* C7: in every code path that waters a plant, a watering attempt whose
\* control_pump call did not succeed leaves the plant's last_watered as it was.
\* Stated for the steps of the demo's automatic watering.
C7_FailedPumpKeepsLastWatered ==
    [][\A position \in Positions :
          ReturnedFalseOn(pump_log', position)
              => LastWateredAt(active_plants', position)
                     = LastWateredAt(active_plants, position)]_vars

\* C8: after a step in which the pump run for a plant succeeded, the plant's
\* last_watered is the current time and its status is active, whatever the
\* status was before the run.
C8_SuccessSetsWateredAndActive ==
    \A i \in DOMAIN pump_log :
        pump_log[i].success /\ pump_log[i].position \in Positions
            => /\ LastWateredAt(active_plants, pump_log[i].position) = isoformat(now)
               /\ StatusAt(active_plants, pump_log[i].position) = "active"

\* C8 witness: the pump ran successfully for a plant whose status was
\* needs_water, and the plant is now active and watered at the current time.
C8_Witness ==
    \E i \in DOMAIN pump_log :
        /\ pump_log[i].success
        /\ pump_log[i].status_before = "needs_water"
        /\ StatusAt(active_plants, pump_log[i].position) = "active"
        /\ LastWateredAt(active_plants, pump_log[i].position) = isoformat(now)

\* C9: a check_plants step sets to needs_water the status of every active
\* plant that the needs-watering check reports before the step waters it.
C9_DuePlantBecomesNeedsWater ==
    [][returned'.op = "check_plants"
          => \A i \in DOMAIN active_plants :
                NeedsWater(active_plants[i], now)
                    => \E k \in DOMAIN status_log' :
                          status_log'[k] = [position |-> active_plants[i].position,
                                            status |-> "needs_water"]]_vars

\* C10: after a step in which the pump run for a plant failed (control_pump
\* returned False or raised), the plant's status is error.
C10_FailedPumpSetsError ==
    \A position \in Positions :
        FailedOn(pump_log, position) => StatusAt(active_plants, position) = "error"

----------------------------------------------------------------------------
(* Claims on the configuration *)

UniquePositions(ap) ==
    \A i, j \in DOMAIN ap : i # j => ap[i].position # ap[j].position

\* C11: from a configuration with no active plants, whatever add_plant and
\* remove_plant calls are made, no two active plants have the same position,
\* and an add_plant for an occupied position returns False and leaves
\* active_plants as it was.
C11_UniquePositionsOccupiedRejected ==
    /\ [] UniquePositions(active_plants)
    /\ [][returned'.op = "add_plant" /\ IndexAt(active_plants, returned'.args[2]) # 0
             => returned'.value = <<FALSE>> /\ active_plants' = active_plants]_vars

\* C11 witness: add_plant of a catalog plant was refused for a position that
\* another plant holds, in a configuration of two plants.
C11_Witness ==
    /\ returned.op = "add_plant"
    /\ returned.args[1] \in PlantNames
    /\ returned.value = <<FALSE>>
    /\ IndexAt(active_plants, returned.args[2]) # 0
    /\ get_plant_at_position(active_plants, returned.args[2]).name # returned.args[1]
    /\ Len(active_plants) >= 2

----------------------------------------------------------------------------
(* Claims on the pump a watering selects and the time it runs it *)

IsEven(position) == \E k \in (0 - MaxOffset - 1)..(MaxOffset + 1) : position = 2 * k

\* C12: every watering triggered for a position runs pump 1 when the position
\* is even and pump 2 when it is odd, that is pump (position mod 2) + 1, for
\* negative positions too, so the pump number is never outside {1, 2}.
C12_PumpIsPositionParityPlusOne ==
    \A i \in DOMAIN pump_log :
        pump_log[i].position \in WateringPositions
            => /\ pump_log[i].pump \in {1, 2}
               /\ pump_log[i].pump = (IF IsEven(pump_log[i].position) THEN 1 ELSE 2)

\* C12 witness: a watering of the plant at a negative odd position ran pump 2
\* to completion.
C12_Witness ==
    \E i \in DOMAIN pump_log :
        /\ pump_log[i].position < 0
        /\ ~IsEven(pump_log[i].position)
        /\ pump_log[i].pump = 2
        /\ pump_log[i].success

\* C13: for every watering the duration passed to the pump, in seconds, is the
\* plant's water amount in ml divided by 100 (duration * 100 = amount), with
\* no rounding to whole seconds.
C13_DurationIsAmountOverFlowRate ==
    \A i \in DOMAIN pump_log :
        pump_log[i].position \in WateringPositions
            => pump_log[i].duration * 100
                   = 1000 * get_plant_at_position(active_plants, pump_log[i].position)
                                .custom_settings.water_amount

\* C13 witness: a watering of a plant whose water amount is 250 ml ran the
\* pump for 2.5 seconds.
C13_Witness ==
    \E i \in DOMAIN pump_log :
        /\ get_plant_at_position(active_plants, pump_log[i].position)
               .custom_settings.water_amount = 250
        /\ pump_log[i].duration = 2500
        /\ pump_log[i].success

----------------------------------------------------------------------------
(* Claims on control_pump *)

FullRun == <<"on", "ran", "off">>

\* the call returned the boolean b (it did not raise)
PumpReturned(result, b) == ~Raised(result) /\ result.returns = b

\* C14: control_pump returns True only when the selected pump was started,
\* ran for the requested duration and was stopped; it returns False whenever
\* the run was cut short by an error; and for a pump number outside {1, 2}
\* it returns False, runs no pump and leaves pump_status as it was.
C14_TrueOnlyFullRunFalseOnAbort ==
    [][returned'.op = "control_pump"
          => /\ PumpReturned(returned'.value, TRUE)
                   => pump_log'[1].pump \in {1, 2} /\ pump_log'[1].events = FullRun
             /\ pump_log'[1].pump \in {1, 2} /\ pump_log'[1].events # FullRun
                   => PumpReturned(returned'.value, FALSE)
             /\ pump_log'[1].pump \notin {1, 2}
                   => /\ PumpReturned(returned'.value, FALSE)
                      /\ pump_log'[1].events = <<>>
                      /\ pump_status' = pump_status]_vars

----------------------------------------------------------------------------
(* Claims on the monitoring loop *)

CycleCalls == {"check_plants", "log_sensor_data"}

\* the last step was a call of the cycle that raised
CycleRaised == returned.op \in CycleCalls /\ returned.value = <<TRUE>>

\* C15: a failure raised inside a cycle of the monitoring loop is caught by
\* the loop: the running flag keeps its value, the loop enters the fixed
\* 10-second backoff, and when the backoff ends with the flag still set a new
\* cycle starts; the loop becomes idle only through a keyboard interrupt or
\* after the running flag was cleared.
C15_CycleFailureCaughtLoopGoesOn ==
    [][/\ CycleRaised'
          => /\ monitor_pc'.running = monitor_pc.running
             /\ monitor_pc'.at = "backoff"
             /\ monitor_pc'.sleep = 10
       /\ monitor_pc.at = "backoff" /\ monitor_pc.running /\ monitor_pc'.at # "backoff"
          => \/ monitor_pc'.at = "check_plants" /\ monitor_pc'.running
             \/ monitor_pc'.at = "idle"
       /\ monitor_pc.at # "idle" /\ monitor_pc'.at = "idle"
          => KeyboardInterrupt \/ ~monitor_pc.running]_vars

\* C15 witness: a cycle failed while the loop was running, and the loop is in
\* its backoff with the running flag set.
C15_Witness ==
    /\ CycleRaised
    /\ pump_log # <<>>
    /\ monitor_pc = [running |-> TRUE, at |-> "backoff", sleep |-> 10]

----------------------------------------------------------------------------
(* Claims on the sensor snapshot *)

SensorRead == returned.op = "read_all_sensors"
Snapshot == returned.value
Device == returned.args[1].device

\* the sensors that failed in the read that was just made
DhtFailed ==
    ~simulation_mode /\ (Device.dht.raised \/ Device.dht.temperature = None
                                           \/ Device.dht.humidity = None)
SoilFailed == ~simulation_mode /\ Device.soil.raised
LightFailed == ~simulation_mode /\ Device.light.raised
WaterFailed == ~simulation_mode /\ Device.water.raised

\* C16: whatever combination of sensors fails, read_all_sensors returns a
\* snapshot in which every quantity of a failed sensor is unknown (None) and
\* every quantity of a working sensor is a reading.
C16_FailedUnknownOthersRead ==
    SensorRead
        => /\ DhtFailed <=> Snapshot.temperature_celsius = None
           /\ DhtFailed <=> Snapshot.humidity_percent = None
           /\ SoilFailed <=> Snapshot.soil_moisture_percent = None
           /\ LightFailed <=> Snapshot.light_lux = None
           /\ WaterFailed <=> Snapshot.water_tank_percentage = None

\* the last step validated a fresh snapshot in RaspberryPiCore
CoreValidated == returned.op = "validate_sensor_readings"

\* the status the validators gave a quantity, "none" when they gave none
StatusOf(quantity) ==
    IF Raised(returned.value) THEN "none" ELSE returned.value[0][quantity].status

\* C17: a reading that is missing because its sensor failed is never turned
\* into a number: the snapshot a read returns holds unknown (None) for it,
\* not 0 (0.0%) or another substitute, and the validators give it no OK.
C17_MissingNeverANumberNorOK ==
    /\ SensorRead
          => /\ DhtFailed => Snapshot.temperature_celsius = None
             /\ DhtFailed => Snapshot.humidity_percent = None
             /\ SoilFailed => Snapshot.soil_moisture_percent = None
             /\ LightFailed => Snapshot.light_lux = None
             /\ WaterFailed => Snapshot.water_tank_percentage = None
                               /\ Snapshot.water_levels # Dry
    /\ CoreValidated
          => /\ DhtFailed => StatusOf("temperature") # "OK" /\ StatusOf("humidity") # "OK"
             /\ SoilFailed => StatusOf("soil_moisture") # "OK"
             /\ LightFailed => StatusOf("light") # "OK"

----------------------------------------------------------------------------
(* Claims on the snapshot histories *)

\* history is the last snapshots of arrived, at most capacity of them, in
\* the order in which they arrived
MostRecent(history, arrived, capacity) ==
    /\ Len(history) = (IF Len(arrived) < capacity THEN Len(arrived) ELSE capacity)
    /\ \A i \in 1..Len(history) :
          history[i] = arrived[Len(arrived) - Len(history) + i]

\* C18: the history of HardwareInterface never holds more than 100 snapshots
\* and that of RaspberryPiCore never more than 50, and after each read a
\* history is what it was followed by the new snapshot, less the oldest
\* snapshots beyond the capacity.
C18_HistoriesBoundedOldestEvicted ==
    /\ [](Len(sensor_history.hardware) <= 100 /\ Len(sensor_history.core) <= 50)
    /\ [][returned'.op = "core_read_all_sensors"
             => /\ MostRecent(sensor_history'.hardware,
                              Append(sensor_history.hardware, returned'.value), 100)
                /\ MostRecent(sensor_history'.core,
                              Append(sensor_history.core, returned'.value), 50)]_vars

\* C18 witness: both histories are full, and the core's history has lost the
\* snapshots of the first tick, which the hardware's longer history still holds.
C18_Witness ==
    /\ Len(sensor_history.hardware) = 100
    /\ Len(sensor_history.core) = 50
    /\ sensor_history.hardware[1].timestamp = isoformat(0)
    /\ sensor_history.core[1].timestamp = isoformat(1)
    /\ sensor_history.core[50] = sensor_history.hardware[100]

\* C19: a validate_sensor_reading call, for every position, sensor type and
\* value, leaves active_plants (every plant's status, last_watered,
\* last_checked and custom_settings) and the saved configuration file as they
\* were.
C19_ValidationLeavesConfigurationAlone ==
    [][returned'.op = "validate_sensor_reading"
          => /\ active_plants' = active_plants
             /\ config_file' = config_file]_vars

\* C19 witness: a reading of a planted position was judged invalid, with an
\* action advised, and the plant and the file are still as add_plant left them.
C19_Witness ==
    /\ Validated
    /\ IndexAt(active_plants, ValidatedPosition) # 0
    /\ ~Raised(Verdict)
    /\ ~Verdict.valid
    /\ \E name \in PlantNames :
          active_plants = <<NewPlantConfig(Plants[name], ValidatedPosition)>>
    /\ config_file = active_plants

\* C20: a step that computes the plants that are due, in PlantConfig
\* (get_plants_needing_water) as in RaspberryPiCore
\* (check_plants_needing_water), changes no plant field, nothing saved and
\* nothing else the system holds.
C20_NeedsWateringCheckChangesNothing ==
    [][returned'.op \in {"get_plants_needing_water", "check_plants_needing_water"}
          => UNCHANGED <<active_plants, config_file, pump_status, sensor_history,
                         system_status, simulation_mode, monitor_pc, now,
                         plants_table, gpio, calls, web_active_plants>>]_vars

\* the four bound pairs of a profile are in order and it waters something
SoundProfile(settings) ==
    /\ settings.light_min <= settings.light_max
    /\ settings.soil_moisture_min <= settings.soil_moisture_max
    /\ settings.humidity_min <= settings.humidity_max
    /\ settings.temperature_min <= settings.temperature_max
    /\ settings.water_amount > 0

\* C21: every active plant, whatever create_plant and update_plant calls made
\* the catalog row that add_plant copied, has min <= max for each of its four
\* bound pairs and a watering amount above 0.
C21_ActiveProfilesAreSound ==
    \A i \in 1..Len(active_plants) : SoundProfile(active_plants[i].custom_settings)

\* C22: between control_pump calls, whatever the calls returned or raised,
\* pump_status records neither pump as running.
C22_NoPumpRecordedRunningBetweenCalls ==
    /\ pump_status.pump1 = FALSE
    /\ pump_status.pump2 = FALSE

\* the control_pump calls of a step that ran the pump for the plant at position
PumpRunsOn(log, position) ==
    {i \in AttemptsOn(log, position) : log[i].success}

\* C23: in one iteration of the monitoring loop, check_plants and the
\* log_sensor_data that follows it run the pump at most once, in total, for
\* the plant at any position.
C23_OnePumpRunPerPlantPerIteration ==
    [][returned.op = "check_plants" /\ returned'.op = "log_sensor_data"
          => \A position \in Monitored :
                Cardinality(PumpRunsOn(pump_log, position))
              + Cardinality(PumpRunsOn(pump_log', position)) <= 1]_vars

\* the snapshot the log_sensor_data call of the last step read
Logged == returned.op = "log_sensor_data"
LoggedSnapshot == returned.args[1]

\* C24: a log_sensor_data call that reads a soil moisture of exactly 0 for a
\* plant whose soil_moisture_min is above 0 validates the reading and runs the
\* pump for that plant.
C24_ZeroSoilMoistureIsValidatedAndWaters ==
    [][(Logged' /\ LoggedSnapshot'.soil_moisture_percent = <<0>>)
          => \A i \in 1..Len(active_plants) :
                active_plants[i].custom_settings.soil_moisture_min > 0
                    => AttemptsOn(pump_log', active_plants[i].position) # {}]_vars

\* whether check_plants_needing_water would report the plant at position
CoreDue(status, position, current_time) ==
    CoreNeedsWater(CorePlants[position + 1], status, current_time)

\* C25: a successful RaspberryPiCore watering of the plant at one position
\* leaves the answer of check_plants_needing_water for the plant at every
\* other position as it was.
C25_WateringOnePlantLeavesOthersDue ==
    [][returned'.op = "water_plant" /\ PumpReturned(returned'.value, TRUE)
          => \A position \in CorePositions \ {returned'.args[1]} :
                CoreDue(system_status', position, now')
                    = CoreDue(system_status, position, now)]_vars

\* C26: on real hardware, while a control_pump call is inside the sleep of
\* its run and a call for the other pump is in progress, no step takes the
\* shared pump-enable line from HIGH to LOW.
C26_EnableStaysHighWhileOtherPumpRuns ==
    [][\A thread \in Threads, other \in Threads :
          (/\ ~simulation_mode
           /\ calls[thread].pc = "running"
           /\ calls[other].pc # "idle"
           /\ calls[other].pump # calls[thread].pump
           /\ gpio.enable)
              => gpio'.enable]_vars

\* C27: the saved configuration file holds every plant the web interface
\* has (those it loaded or added and did not remove), whatever saves the
\* monitoring loop made in between.
C27_FileHoldsEveryWebPlant ==
    \A i \in 1..Len(web_active_plants) :
        IndexAt(config_file, web_active_plants[i].position) # 0

\* C28: every control_pump call of a watering, for every profile, is asked
\* to run the pump for at most the safety_timeout of 30 seconds.
C28_NoRunLongerThanSafetyTimeout ==
    \A i \in DOMAIN pump_log : pump_log[i].duration <= SafetyTimeout

\* the plant ids a check_and_water_plants call watered successfully
WateredIds(log) == {log[i].position : i \in {j \in DOMAIN log : log[j].success}}

\* the watering frequency, in days, of the website plant with an id
FrequencyOf(id) ==
    IF id = Plants.SnakePlant.id THEN Plants.SnakePlant.watering_frequency
    ELSE Plants.PeaceLily.watering_frequency

\* C29: when a cycle of the integrated planter has watered a plant
\* successfully and the next cycle, using the local fallback check because
\* the needing-water endpoint is unavailable, comes before the plant's
\* watering frequency has elapsed, that cycle does not run the pump for the
\* plant again.
C29_WateredPlantNotWateredAgainTooSoon ==
    [][(/\ returned.op = "check_and_water_plants"
        /\ returned'.op = "check_and_water_plants"
        /\ returned'.args[2] # "ok")
          => \A id \in WateredIds(pump_log) :
                DaysBetween(now', now) < FrequencyOf(id)
                    => AttemptsOn(pump_log', id) = {}]_vars

\* C30: however add_plant requests for a position are interleaved by the web
\* server, active_plants never holds two entries for one position.
C30_OneEntryPerPositionUnderConcurrentAdds ==
    \A i, j \in 1..Len(web_active_plants) :
        i # j => web_active_plants[i].position # web_active_plants[j].position

============================================================================
